---- MODULE Spec2Model ----
(***************************************************************************)
(* Guided Langevin sampler for multicoil MRI reconstruction                *)
(* (samplers/guided_langevin.py, class guided_LD).                         *)
(*                                                                         *)
(* Floating-point tensors are abstracted to residues modulo Q: a tensor    *)
(* entry is an element of Z_Q, a complex entry a pair <<re, im>> of Z_Q.   *)
(* Sums, products and conjugates are the ring operations of Z_Q[i], so     *)
(* every algebraic identity of the code's tensor algebra is an identity of *)
(* the model, and a result depends on exactly the values the code computes *)
(* it from.  Magnitudes, rounding and NaN/Inf are outside the abstraction. *)
(* An image is H x W = 2 x 1 pixels (Pixels), with two coils (Coils).      *)
(***************************************************************************)
EXTENDS FiniteSets, Integers, Sequences, TLC

VARIABLES
    config,     \* self.config / self.args of the run(s)
    active,     \* the processes that execute sample()
    run,        \* run[r]: the state of process r inside sample()
    sched,      \* noise-schedule harness: inputs and result of the step-size rule
    op,         \* operator harness: inputs and results of forward / adjoint
    ed          \* edit harness: inputs and results of edit()

vars == <<config, active, run, sched, op, ed>>

----------------------------------------------------------------------------
(* Bounds of the model *)

MaxClasses == 3      \* small schedules: num_classes in 1..MaxClasses
MaxLate == 2         \* long schedules: num_classes, start_iter within MaxLate of the threshold
MaxNSteps == 2       \* sampling.n_steps_each in 1..MaxNSteps
MaxBatch == 2        \* batch_size in 1..MaxBatch
MaxBatches == 2      \* len(dataloader) in 0..MaxBatches

(* Program constants *)

StepThreshold == 1800    \* `if step <= 1800`
FixedInner == 3          \* `n_steps_each = 3`

Runs == {1, 2}
Pixels == {0, 1}         \* rows of the 2 x 1 image
Coils == {0, 1}
Channels == {0, 1}       \* xt[:, 0] real part, xt[:, 1] imaginary part
Residues == 0..6
Q == Cardinality(Residues)

----------------------------------------------------------------------------
(* Arithmetic of Z_Q and Z_Q[i] *)

Inv(a) == CHOOSE k \in Residues : (a * k) % Q = 1

CAdd(a, b) == <<(a[1] + b[1]) % Q, (a[2] + b[2]) % Q>>
CSub(a, b) == <<(a[1] - b[1]) % Q, (a[2] - b[2]) % Q>>
CMul(a, b) == <<(a[1] * b[1] - a[2] * b[2]) % Q, (a[1] * b[2] + a[2] * b[1]) % Q>>
CConj(a) == <<a[1], (0 - a[2]) % Q>>
CScale(k, a) == <<(k * a[1]) % Q, (k * a[2]) % Q>>
CZero == <<0, 0>>

RECURSIVE CSum(_, _)
CSum(f, S) ==
    IF S = {} THEN CZero
    ELSE LET e == CHOOSE e \in S : TRUE IN CAdd(f[e], CSum(f, S \ {e}))

RECURSIVE ISum(_, _)
ISum(f, S) ==
    IF S = {} THEN 0
    ELSE LET e == CHOOSE e \in S : TRUE IN f[e] + ISum(f, S \ {e})

(* Real tensors of shape [batch, 2, H, W]: x[i][ch][p] *)

Batch(x) == DOMAIN x
TAdd(x, y) == [i \in Batch(x) |-> [ch \in Channels |-> [p \in Pixels |->
                 (x[i][ch][p] + y[i][ch][p]) % Q]]]
TSub(x, y) == [i \in Batch(x) |-> [ch \in Channels |-> [p \in Pixels |->
                 (x[i][ch][p] - y[i][ch][p]) % Q]]]
TScale(k, x) == [i \in Batch(x) |-> [ch \in Channels |-> [p \in Pixels |->
                 (k * x[i][ch][p]) % Q]]]
TSumSq(x) == ISum([e \in Batch(x) \X Channels \X Pixels |->
                 x[e[1]][e[2]][e[3]] * x[e[1]][e[2]][e[3]]],
                 Batch(x) \X Channels \X Pixels)

----------------------------------------------------------------------------
(* Collaborators of the sampler that live outside samplers/guided_langevin.py *)

\* 1/sqrt(2) in Z_Q: the orthonormal scaling of the 2-point transform
InvSqrt2 == CHOOSE k \in Residues : (2 * k * k) % Q = 1

\* datasets.utils.fft: orthonormal discrete Fourier transform along the rows
fft(v) == [k \in Pixels |->
             CScale(InvSqrt2, IF k = 0 THEN CAdd(v[0], v[1]) ELSE CSub(v[0], v[1]))]

\* datasets.utils.ifft: its inverse (the conjugate transpose of the transform)
ifft(v) == [n \in Pixels |->
             CScale(InvSqrt2, IF n = 0 THEN CAdd(v[0], v[1]) ELSE CSub(v[0], v[1]))]

\* datasets.utils.MulticoilForwardMRI: coil-map multiplication, then the
\* masked Fourier transform.  image[i][p], maps[i][c][p], mask[i][k]
MulticoilForwardMRI(image, maps, mask) ==
    [i \in DOMAIN image |-> [c \in Coils |->
        LET coil == [p \in Pixels |-> CMul(image[i][p], maps[i][c][p])]
            ksp == fft(coil)
        IN  [k \in Pixels |-> CScale(mask[i][k], ksp[k])]]]

\* datasets.utils.get_mvue: coil-combined estimate of the image from k-space
get_mvue(ref, maps) ==
    [i \in DOMAIN ref |-> [p \in Pixels |->
        CSum([c \in Coils |-> CMul(ifft(ref[i][c])[p], CConj(maps[i][c][p]))], Coils)]]

\* the scale normalize / unnormalize read off the estimated image: a nonzero scalar
Scaling(estimated_mvue) ==
    1 + (ISum([e \in (DOMAIN estimated_mvue) \X Pixels |->
                 estimated_mvue[e[1]][e[2]][1] * estimated_mvue[e[1]][e[2]][1]
               + estimated_mvue[e[1]][e[2]][2] * estimated_mvue[e[1]][e[2]][2]],
              (DOMAIN estimated_mvue) \X Pixels) % (Q - 1))

\* datasets.utils.normalize / unnormalize: return a rescaled copy of gen_img
normalize(gen_img, estimated_mvue) == TScale(Scaling(estimated_mvue), gen_img)
unnormalize(gen_img, estimated_mvue) == TScale(Inv(Scaling(estimated_mvue)), gen_img)

\* models.ncsnv2.NCSNv2Deepest: a deterministic function of (xt, labels)
score(x, labels) ==
    [i \in Batch(x) |-> [ch \in Channels |-> [p \in Pixels |->
        (2 * x[i][ch][p] + labels[i] + ch + 1) % Q]]]

\* models.get_sigmas: a strictly decreasing positive schedule of num_classes
\* levels (sigmas[k] of the code is get_sigmas(c)[k + 1])
get_sigmas(c) == [k \in 1..c.num_classes |-> c.num_classes - k + 1]

\* the data loader: batch b of the run's dataset
Dataloader(c, b) ==
    LET B == 0..(c.batch_size - 1) IN
    [ ground_truth |-> [i \in B |-> [co \in Coils |-> [k \in Pixels |->
                          <<(c.data + b + i + co + k) % Q, (b + co * k + 1) % Q>>]]],
      mvue      |-> [i \in B |-> [p \in Pixels |->
                          <<(c.data + b + 2 * i + p + 1) % Q, (i + p) % Q>>]],
      maps      |-> [i \in B |-> [co \in Coils |-> [p \in Pixels |->
                          IF (c.data + b + i + co + p) % 2 = 0 THEN <<1, 0>> ELSE <<0, 1>>]]],
      mask      |-> [i \in B |-> [k \in Pixels |-> IF k = 0 THEN 1 ELSE (c.data + b) % 2]],
      slice_idx |-> [i \in B |-> b * c.batch_size + i] ]

----------------------------------------------------------------------------
(* The random stream.  rng.torch is the seeded generator torch.randn and   *)
(* torch.randn_like draw from; rng.os is entropy no seed controls.         *)

Lcg(g) == (3 * g + 1) % Q

RECURSIVE LcgAt(_, _)
LcgAt(g, k) == IF k = 0 THEN g ELSE LcgAt(Lcg(g), k - 1)

\* position of element (i, ch, p) in the order the generator fills a tensor
Offset(i, ch, p) == i * (Cardinality(Channels) * Cardinality(Pixels))
                    + ch * Cardinality(Pixels) + p + 1
Numel(bs) == bs * Cardinality(Channels) * Cardinality(Pixels)

randn_unseeded(rng, bs) ==
    [ value |-> [i \in 0..(bs - 1) |-> [ch \in Channels |-> [p \in Pixels |->
                    LcgAt(rng.os, Offset(i, ch, p))]]],
      rng   |-> [rng EXCEPT !.os = LcgAt(rng.os, Numel(bs))] ]

\* torch.randn((batch_size, 2, H, W)) and torch.randn_like(xt)
randn(rng, bs) ==
    [ value |-> [i \in 0..(bs - 1) |-> [ch \in Channels |-> [p \in Pixels |->
                    LcgAt(rng.torch, Offset(i, ch, p))]]],
      rng   |-> [rng EXCEPT !.torch = LcgAt(rng.torch, Numel(bs))] ]

----------------------------------------------------------------------------
(* Pieces of guided_LD.sample *)

\* torch.complex(x[:, 0], x[:, 1])
ToComplex(x) == [i \in Batch(x) |-> [p \in Pixels |-> <<x[i][0][p], x[i][1][p]>>]]

\* torch.view_as_real(z).permute(0, 3, 1, 2)
ToChannels(z) == [i \in DOMAIN z |-> [ch \in Channels |-> [p \in Pixels |-> z[i][p][ch + 1]]]]

\* forward_operator = lambda x: MulticoilForwardMRI(orientation)(complex(x), maps, mask)
forward_operator(x, maps, mask) == MulticoilForwardMRI(ToComplex(x), maps, mask)

\* meas - ref
Residual(meas, ref) ==
    [i \in DOMAIN meas |-> [c \in Coils |-> [k \in Pixels |-> CSub(meas[i][c][k], ref[i][c][k])]]]

\* torch.sum(ifft(y) * torch.conj(maps), axis=1): the map from a k-space
\* residual back to image space
Adjoint(y, maps) ==
    [i \in DOMAIN y |-> [p \in Pixels |->
        CSum([c \in Coils |-> CMul(ifft(y[i][c])[p], CConj(maps[i][c][p]))], Coils)]]

\* torch.norm: a nonzero scalar read off the tensor
Norm(x) == 1 + (TSumSq(x) % (Q - 1))

step_size_from_first(step_lr, sigmas, step) ==
    LET sigma == sigmas[step + 1]
        first == sigmas[1]
    IN  [num |-> step_lr * sigma * sigma, den |-> first * first]

\* step_size = step_lr * (sigma / sigmas[-1]) ** 2, as the exact fraction num/den
step_size_at(step_lr, sigmas, step) ==
    LET sigma == sigmas[step + 1]
        last  == sigmas[Len(sigmas)]
    IN  [num |-> step_lr * sigma * sigma, den |-> last * last]

\* a fraction as a residue
Res(f) == ((f.num % Q) * Inv(f.den % Q)) % Q

\* np.sqrt(step_size * 2): a scalar read off the step size
NoiseScale(ss) == 1 + ((2 * ss) % (Q - 1))

NStepsIgnoringThreshold(step, c) == c.n_steps_each
NStepsStrictThreshold(step, c) ==
    IF step < StepThreshold THEN FixedInner ELSE c.n_steps_each

\* if step <= 1800: n_steps_each = 3 else: n_steps_each = sampling.n_steps_each
NStepsEach(step, c) ==
    IF step <= StepThreshold THEN FixedInner ELSE c.n_steps_each

SkippedStrict(step, c) == step < c.start_iter

\* if step <= start_iter: continue
Skipped(step, c) == step <= c.start_iter

\* one pass of the inner loop body on xt: the new xt and generator
LangevinUpdate(x, rng, step, c, X, estimated_mvue) ==
    LET sigmas    == get_sigmas(c)
        labels    == [i \in Batch(x) |-> step]
        ss        == Res(step_size_at(c.step_lr, sigmas, step))
        draw      == randn(rng, c.batch_size)
        noise     == TScale(NoiseScale(ss), draw.value)
        p_grad    == score(x, labels)
        meas      == forward_operator(normalize(x, estimated_mvue), X.maps, X.mask)
        g0        == ToChannels(Adjoint(Residual(meas, X.ground_truth), X.maps))
        g1        == unnormalize(g0, estimated_mvue)
        g2        == TScale(Inv(Norm(g1)), g1)
        g3        == TScale(Norm(p_grad), g2)
        meas_grad == TScale(c.mse, g3)
    IN  [ xt  |-> TAdd(TAdd(x, TScale(ss, TSub(p_grad, meas_grad))), noise),
          rng |-> draw.rng ]

----------------------------------------------------------------------------
(* guided_LD.edit and the metrics.  An image is a function from pixel      *)
(* coordinates <<x, y>> to a non-negative intensity.                       *)

Max(img) == CHOOSE m \in {img[p] : p \in DOMAIN img} : \A p \in DOMAIN img : img[p] <= m

\* img[img <= 0.05 * torch.max(orig_img)] = 0
Threshold005(img, peak) == [p \in DOMAIN img |-> IF 20 * img[p] <= peak THEN 0 ELSE img[p]]

\* img *= 255.0 / img.max(); img.astype(np.uint8): the scaled value truncated,
\* in exact arithmetic.  An all-zero image gives 0 * inf = NaN, whose cast to
\* uint8 is undefined: `cast` is what the build yields
Rescale8(img, cast) ==
    LET m == Max(img)
    IN  [p \in DOMAIN img |-> IF m = 0 THEN cast ELSE (img[p] * 255) \div m]

InCircleOffCentre(xy) ==
    (xy[1] * xy[1]) + (xy[2] * xy[2]) <= 165 * 165

\* cv2.circle(mask, (192, 192), 165, 255, -1): the filled disc
InCircle(xy) ==
    (xy[1] - 192) * (xy[1] - 192) + (xy[2] - 192) * (xy[2] - 192) <= 165 * 165

\* cv2.bitwise_and(recon_np, recon_np, mask=mask)
CircleMask(img) == [p \in DOMAIN img |-> IF InCircle(p) THEN img[p] ELSE 0]

\* edit(self, config, orig_img, recon_img)
Edit(c, orig_img, recon_img, cast) ==
    LET peak     == Max(orig_img)
        recon_th == IF c.denoise_005 THEN Threshold005(recon_img, peak) ELSE recon_img
        orig_th  == IF c.denoise_005 THEN Threshold005(orig_img, peak) ELSE orig_img
        orig_np  == Rescale8(orig_th, cast)
        recon_8  == Rescale8(recon_th, cast)
        recon_np == IF c.circle_mask THEN CircleMask(recon_8) ELSE recon_8
    IN  [orig_th |-> orig_th, recon_th |-> recon_th, orig_np |-> orig_np, recon_np |-> recon_np]

\* what the cast of NaN to uint8 may yield
UndefinedCast == {0, 255}

\* skimage structural_similarity / peak_signal_noise_ratio: deterministic
\* functions of the two 8-bit images (agreeing pixels, squared error)
ssim(orig_np, recon_np) == Cardinality({p \in DOMAIN orig_np : orig_np[p] = recon_np[p]})
psnr(orig_np, recon_np) ==
    ISum([p \in DOMAIN orig_np |-> (orig_np[p] - recon_np[p]) * (orig_np[p] - recon_np[p])],
         DOMAIN orig_np)

\* |z|
Abs(z) == (z[1] * z[1] + z[2] * z[2]) % Q

\* a column of H pixels as an image: x = 0, y = row
AsImage(v) == [xy \in {<<0, p>> : p \in Pixels} |-> v[xy[2]]]

\* view_as_complex(xt.permute(0, 2, 3, 1)).abs().flip(-2)
ToDisplay(x) == [i \in Batch(x) |-> [p \in Pixels |-> Abs(<<x[i][0][1 - p], x[i][1][1 - p]>>)]]

\* mvue[i].abs().flip(-2)
OrigImg(mvue_i) == [p \in Pixels |-> Abs(mvue_i[1 - p])]

PrependScore(scores, v) == <<v>> \o scores

\* self.ssim_scores.append(ssim_score) / self.psnr_scores.append(psnr_score)
AppendScore(scores, v) == Append(scores, v)

MvueRescaledInPlace(estimated_mvue) ==
    [i \in DOMAIN estimated_mvue |-> [p \in Pixels |->
        CScale(Scaling(estimated_mvue) + 1, estimated_mvue[i][p])]]

\* estimated_mvue after a pass of the inner loop body or after the post-loop
\* renormalization: both only read it
MvueAfterUse(estimated_mvue) == estimated_mvue

----------------------------------------------------------------------------
(* Configurations *)

Seeds == {0, 1}
Entropy == {0, 1}

ConfigFamily(classes, starts, nsteps, sizes, batches, saves, flags, seeds) ==
    [ num_classes : classes, start_iter : starts, n_steps_each : nsteps,
      batch_size : sizes, nbatches : batches,
      save_images : saves, circle_mask : flags, denoise_005 : flags,
      seed : seeds, data : {0}, step_lr : {2}, mse : {3} ]

\* short schedules, every combination
SmallConfigs ==
    ConfigFamily(1..MaxClasses, 0..(MaxClasses - 1), 1..MaxNSteps, 1..MaxBatch,
                 0..MaxBatches, BOOLEAN, BOOLEAN, {0})

\* schedules that cross the step threshold, started near it
LateConfigs ==
    ConfigFamily((StepThreshold + 2)..(StepThreshold + 1 + MaxLate),
                 (StepThreshold - MaxLate)..(StepThreshold + MaxLate),
                 1..MaxNSteps, {1}, {1}, {FALSE}, {FALSE}, {0})

\* num_classes=10, start_iter=5, n_steps_each=1, batch_size=1
ScenarioConfigs == ConfigFamily({10}, {5}, {1}, {1}, {1}, BOOLEAN, BOOLEAN, {0})

\* two processes side by side
PairConfigs == ConfigFamily({1, 2}, {0}, {1}, {1, 2}, {1, 2}, BOOLEAN, {FALSE}, Seeds)

----------------------------------------------------------------------------
(* guided_LD.__init__ and sample() *)

\* the state of a process when sample() is entered: __init__ has emptied the
\* score lists and the caller has seeded the torch generator
InitRun(c, e) ==
    [ pc |-> "start", idx |-> 0, X |-> <<>>, loaded |-> FALSE,
      estimated_mvue |-> <<>>, mvue_count |-> 0,
      xt |-> <<>>, rng |-> [torch |-> c.seed, os |-> e], draws |-> 0,
      step |-> -1, n_steps_each |-> 0, inner |-> 0, queries |-> 0, score_calls |-> 0,
      visited |-> <<>>,
      finals |-> <<>>, to_display |-> <<>>, i |-> 0,
      ssim_scores |-> <<>>, psnr_scores |-> <<>>, processed |-> <<>>,
      saved |-> {}, stats_file |-> [ssim |-> <<>>, psnr |-> <<>>], stats_written |-> FALSE ]

Idle == [phase |-> "idle"]

Becomes(r, rec) ==
    /\ run' = [run EXCEPT ![r] = rec]
    /\ UNCHANGED <<config, active, sched, op, ed>>

\* load the model, the data loader and the schedule
Setup(r) ==
    /\ run[r].pc = "start"
    /\ Becomes(r, [run[r] EXCEPT !.pc = "batches"])

\* for idx, X in enumerate(dataloader): ref, mvue, maps, mask = X[...]
LoadBatch(r) ==
    /\ run[r].pc = "batches"
    /\ run[r].idx < config.nbatches
    /\ Becomes(r, [run[r] EXCEPT !.X = Dataloader(config, run[r].idx),
                                 !.loaded = TRUE, !.mvue_count = 0,
                                 !.pc = "mvue"])

\* estimated_mvue = torch.tensor(get_mvue(ref, maps))
EstimateMvue(r) ==
    /\ run[r].pc = "mvue"
    /\ Becomes(r, [run[r] EXCEPT
            !.estimated_mvue = get_mvue(run[r].X.ground_truth, run[r].X.maps),
            !.mvue_count = @ + 1,
            !.pc = "init"])

\* xt = torch.randn((batch_size, 2, H, W))
InitCandidate(r) ==
    /\ run[r].pc = "init"
    /\ LET draw == randn(run[r].rng, config.batch_size)
       IN  Becomes(r, [run[r] EXCEPT !.xt = draw.value, !.rng = draw.rng,
                                     !.draws = @ + 1, !.step = -1, !.inner = 0,
                                     !.queries = 0, !.visited = <<>>,
                                     !.pc = "outer"])

\* for step in range(num_classes): if step <= start_iter: continue
SkipStep(r) ==
    /\ run[r].pc = "outer"
    /\ run[r].step + 1 < config.num_classes
    /\ Skipped(run[r].step + 1, config)
    /\ Becomes(r, [run[r] EXCEPT !.step = @ + 1])

\* the head of an included outer step: n_steps_each, sigma, labels, step_size
BeginStep(r) ==
    /\ run[r].pc = "outer"
    /\ run[r].step + 1 < config.num_classes
    /\ ~Skipped(run[r].step + 1, config)
    /\ Becomes(r, [run[r] EXCEPT !.step = @ + 1,
                                 !.n_steps_each = NStepsEach(run[r].step + 1, config),
                                 !.inner = 0,
                                 !.visited = Append(@, run[r].step + 1),
                                 !.pc = "inner"])

\* for _ in range(n_steps_each): noise, p_grad, meas_grad, xt = xt + ...
InnerIteration(r) ==
    /\ run[r].pc = "inner"
    /\ run[r].inner < run[r].n_steps_each
    /\ LET u == LangevinUpdate(run[r].xt, run[r].rng, run[r].step, config,
                               run[r].X, run[r].estimated_mvue)
       IN  Becomes(r, [run[r] EXCEPT !.xt = u.xt, !.rng = u.rng,
                                     !.estimated_mvue = MvueAfterUse(@),
                                     !.draws = @ + 1, !.queries = @ + 1,
                                     !.score_calls = @ + 1,
                                     !.inner = @ + 1])

\* the inner loop is exhausted
EndInner(r) ==
    /\ run[r].pc = "inner"
    /\ run[r].inner >= run[r].n_steps_each
    /\ Becomes(r, [run[r] EXCEPT !.pc = "outer"])

\* the outer loop is exhausted: xt = normalize(xt, estimated_mvue); to_display
PostLoop(r) ==
    /\ run[r].pc = "outer"
    /\ run[r].step + 1 >= config.num_classes
    /\ LET x == normalize(run[r].xt, run[r].estimated_mvue)
       IN  Becomes(r, [run[r] EXCEPT !.xt = x,
                                     !.estimated_mvue = MvueAfterUse(@),
                                     !.to_display = ToDisplay(x),
                                     !.finals = Append(@, x),
                                     !.i = 0,
                                     !.pc = "images"])

\* for i in range(batch_size): edit, ssim, psnr, the two appends
ProcessImage(r) ==
    /\ run[r].pc = "images"
    /\ run[r].i < config.batch_size
    /\ \E cast \in UndefinedCast :
         LET i          == run[r].i
             recon_img  == AsImage(run[r].to_display[i])
             orig_img   == AsImage(OrigImg(run[r].X.mvue[i]))
             e          == Edit(config, orig_img, recon_img, cast)
             ssim_score == ssim(e.orig_np, e.recon_np)
             psnr_score == psnr(e.orig_np, e.recon_np)
         IN  Becomes(r, [run[r] EXCEPT
                 !.ssim_scores = AppendScore(@, ssim_score),
                 !.psnr_scores = AppendScore(@, psnr_score),
                 !.processed = Append(@, [batch |-> run[r].idx, i |-> i,
                                          ssim |-> ssim_score, psnr |-> psnr_score]),
                 !.i = IF config.save_images THEN @ ELSE @ + 1,
                 !.pc = IF config.save_images THEN "save" ELSE "images"])

\* if self.args.save_images: both files are written
SaveImage(r) ==
    /\ run[r].pc = "save"
    /\ LET slice_idx == run[r].X.slice_idx[run[r].i]
       IN  Becomes(r, [run[r] EXCEPT
                 !.saved = @ \cup {<<slice_idx, "or">>, <<slice_idx, "recon">>},
                 !.i = @ + 1,
                 !.pc = "images"])

\* save_images, ImageFont.truetype or recon_np.save raises: nothing in
\* sample() catches it, the exception leaves sample()
SaveImageFails(r) ==
    /\ run[r].pc = "save"
    /\ \E wrote_orig \in BOOLEAN :
         LET slice_idx == run[r].X.slice_idx[run[r].i]
         IN  Becomes(r, [run[r] EXCEPT
                 !.saved = IF wrote_orig THEN @ \cup {<<slice_idx, "or">>} ELSE @,
                 !.pc = "raised"])

\* the image loop of the batch is exhausted
EndImages(r) ==
    /\ run[r].pc = "images"
    /\ run[r].i >= config.batch_size
    /\ Becomes(r, [run[r] EXCEPT !.idx = @ + 1, !.loaded = FALSE, !.pc = "batches"])

\* the data loader is exhausted: json.dump(stats_dict, f)
WriteStats(r) ==
    /\ run[r].pc = "batches"
    /\ run[r].idx >= config.nbatches
    /\ Becomes(r, [run[r] EXCEPT
            !.stats_file = [ssim |-> run[r].ssim_scores, psnr |-> run[r].psnr_scores],
            !.stats_written = TRUE,
            !.pc = "done"])

Next ==
    \/ \E r \in active : Setup(r)
    \/ \E r \in active : LoadBatch(r)
    \/ \E r \in active : EstimateMvue(r)
    \/ \E r \in active : InitCandidate(r)
    \/ \E r \in active : SkipStep(r)
    \/ \E r \in active : BeginStep(r)
    \/ \E r \in active : InnerIteration(r)
    \/ \E r \in active : EndInner(r)
    \/ \E r \in active : PostLoop(r)
    \/ \E r \in active : ProcessImage(r)
    \/ \E r \in active : SaveImage(r)
    \/ \E r \in active : SaveImageFails(r)
    \/ \E r \in active : EndImages(r)
    \/ \E r \in active : WriteStats(r)

\* one process runs sample()
Init ==
    /\ config \in SmallConfigs \cup LateConfigs \cup ScenarioConfigs
    /\ active = {1}
    /\ run = [r \in Runs |-> InitRun(config, 0)]
    /\ sched = Idle
    /\ op = Idle
    /\ ed = Idle

Spec == Init /\ [][Next]_vars

\* two processes run sample() with the same seed, inputs and configuration;
\* what no seed controls differs freely
InitPair ==
    /\ config \in PairConfigs
    /\ active = Runs
    /\ \E e \in [Runs -> Entropy] : run = [r \in Runs |-> InitRun(config, e[r])]
    /\ sched = Idle
    /\ op = Idle
    /\ ed = Idle

SpecPair == InitPair /\ [][Next]_vars

----------------------------------------------------------------------------
(* The step-size rule on arbitrary positive schedules *)

MaxLevels == 3       \* schedules of 1..MaxLevels noise levels
MaxSigma == 4        \* noise levels 1..MaxSigma
MaxLr == 2           \* step_lr in 0..MaxLr

Schedules == UNION {[1..n -> 1..MaxSigma] : n \in 1..MaxLevels}

StrictlyDecreasing(sigmas) == \A k \in 1..(Len(sigmas) - 1) : sigmas[k] > sigmas[k + 1]

InitSchedule ==
    /\ config \in ConfigFamily({1}, {0}, {1}, {1}, {0}, {FALSE}, {FALSE}, {0})
    /\ active = {}
    /\ run = [r \in Runs |-> InitRun(config, 0)]
    /\ sched \in [phase : {"input"}, sigmas : Schedules, step_lr : 0..MaxLr,
                  step : {-1}, step_size : {[num |-> 0, den |-> 1]}]
    /\ op = Idle
    /\ ed = Idle

\* sigma = sigmas[step]; step_size = step_lr * (sigma / sigmas[-1]) ** 2
StepSizeAt ==
    /\ sched.phase = "input"
    /\ \E step \in 0..(Len(sched.sigmas) - 1) :
         sched' = [sched EXCEPT !.phase = "done", !.step = step,
                                !.step_size = step_size_at(sched.step_lr, sched.sigmas, step)]
    /\ UNCHANGED <<config, active, run, op, ed>>

NextSchedule == StepSizeAt

SpecSchedule == InitSchedule /\ [][NextSchedule]_vars

----------------------------------------------------------------------------
(* The forward operator and the map back to image space on arbitrary inputs *)

RealValues == {0, 1}
MapValues == {<<1, 0>>, <<0, 1>>}
KValues == {<<0, 0>>, <<1, 0>>}

\* <a, b> = sum of a * conj(b) over every entry
InnerK(a, b) ==
    CSum([e \in (DOMAIN a) \X Coils \X Pixels |->
             CMul(a[e[1]][e[2]][e[3]], CConj(b[e[1]][e[2]][e[3]]))],
         (DOMAIN a) \X Coils \X Pixels)
InnerX(a, b) ==
    CSum([e \in (DOMAIN a) \X Pixels |-> CMul(a[e[1]][e[2]], CConj(b[e[1]][e[2]]))],
         (DOMAIN a) \X Pixels)

InitOperator ==
    /\ config \in ConfigFamily({1}, {0}, {1}, {1}, {0}, {FALSE}, {FALSE}, {0})
    /\ active = {}
    /\ run = [r \in Runs |-> InitRun(config, 0)]
    /\ sched = Idle
    /\ op \in [phase : {"input"},
               x : [{0} -> [Channels -> [Pixels -> RealValues]]],
               maps : [{0} -> [Coils -> [Pixels -> MapValues]]],
               mask : [{0} -> [Pixels -> {0, 1}]],
               y : [{0} -> [Coils -> [Pixels -> KValues]]],
               lhs : {CZero}, rhs : {CZero}]
    /\ ed = Idle

\* forward_operator(x) and sum(ifft(y) * conj(maps), axis=1), paired with y and x
ApplyOperators ==
    /\ op.phase = "input"
    /\ op' = [op EXCEPT
            !.phase = "done",
            !.lhs = InnerK(forward_operator(op.x, op.maps, op.mask), op.y),
            !.rhs = InnerX(ToComplex(op.x), Adjoint(op.y, op.maps))]
    /\ UNCHANGED <<config, active, run, sched, ed>>

NextOperator == ApplyOperators

SpecOperator == InitOperator /\ [][NextOperator]_vars

----------------------------------------------------------------------------
(* edit() on arbitrary images, sampled at the centre of the disc, at its    *)
(* rightmost pixel and at the pixel next to it                              *)

EditPixels == {<<192, 192>>, <<357, 192>>, <<358, 192>>}
Intensities == {0, 1, 2, 50}

InitEdit ==
    /\ config \in ConfigFamily({1}, {0}, {1}, {1}, {0}, {FALSE}, {FALSE}, {0})
    /\ active = {}
    /\ run = [r \in Runs |-> InitRun(config, 0)]
    /\ sched = Idle
    /\ op = Idle
    /\ \E o \in [EditPixels -> Intensities], rc \in [EditPixels -> Intensities],
          cm \in BOOLEAN, dn \in BOOLEAN :
         ed = [phase |-> "input", circle_mask |-> cm, denoise_005 |-> dn,
               orig_img |-> o, recon_img |-> rc, cast |-> 0,
               out |-> [orig_th |-> o, recon_th |-> rc, orig_np |-> o, recon_np |-> rc]]

\* orig_th, recon_th, orig_np, recon_np = self.edit(self.config, orig_img, recon_img)
ApplyEdit ==
    /\ ed.phase = "input"
    /\ \E cast \in UndefinedCast :
         ed' = [ed EXCEPT !.phase = "done", !.cast = cast,
                          !.out = Edit(ed, ed.orig_img, ed.recon_img, cast)]
    /\ UNCHANGED <<config, active, run, sched, op>>

NextEdit == ApplyEdit

SpecEdit == InitEdit /\ [][NextEdit]_vars

----------------------------------------------------------------------------
(* Properties *)

\* the outer steps the loop includes: start_iter < step <= num_classes - 1
IncludedSteps == {s \in 0..(config.num_classes - 1) : s > config.start_iter}

\* the inner-iteration count of an included step
InnerCount(s) == IF s <= 1800 THEN 3 ELSE config.n_steps_each

\* the annealing loop of the current batch is over
LoopDone(r) == run[r].pc \in {"images", "save", "raised"}

\* C1: the number of Score Estimator queries made for a batch equals the sum,
\* over the included outer steps, of the step's inner-iteration count
\* (3 when step <= 1800, sampling.n_steps_each otherwise)
C1_QueriesPerBatch ==
    \A r \in active :
        LoopDone(r) =>
            run[r].queries =
                3 * Cardinality({s \in IncludedSteps : s <= 1800})
                + config.n_steps_each * Cardinality({s \in IncludedSteps : s > 1800})

C1_Witness ==
    /\ LoopDone(1)
    /\ config.n_steps_each # 3
    /\ \E s \in IncludedSteps : s <= 1800
    /\ \E s \in IncludedSteps : s > 1800

Scenario ==
    /\ config.num_classes = 10
    /\ config.start_iter = 5
    /\ config.n_steps_each = 1
    /\ config.batch_size = 1

\* C2 as stated: in the scenario num_classes=10, start_iter=5, n_steps_each=1,
\* batch_size=1 the batch takes 4 outer steps of 1 inner iteration each, 4
\* Score Estimator queries
C2_ScenarioFourQueries ==
    \A r \in active :
        (Scenario /\ LoopDone(r)) =>
            /\ Len(run[r].visited) = 4
            /\ run[r].n_steps_each = 1
            /\ run[r].queries = 4

\* C2 as amended: in that scenario the batch takes 4 outer steps (6, 7, 8, 9)
\* of 3 inner iterations each, 12 Score Estimator queries
C2_ScenarioTwelveQueries ==
    \A r \in active :
        (Scenario /\ LoopDone(r)) =>
            /\ run[r].visited = <<6, 7, 8, 9>>
            /\ run[r].n_steps_each = 3
            /\ run[r].queries = 12

C2_Witness == Scenario /\ LoopDone(1) /\ run[1].queries > 0

\* sample() has returned or has been left by an exception
Ended(r) == run[r].pc \in {"done", "raised"}

\* C3: stats.json is written at the end of sample() whether or not saving an
\* image failed, with a score of every slice of every batch
C3_StatsDespiteSaveFailure ==
    \A r \in active :
        Ended(r) =>
            /\ run[r].stats_written
            /\ Len(run[r].stats_file.ssim) = config.nbatches * config.batch_size
            /\ Len(run[r].stats_file.psnr) = config.nbatches * config.batch_size

IsPrefix(a, b) == Len(a) <= Len(b) /\ \A k \in 1..Len(a) : a[k] = b[k]

\* the number of (batch, i) images whose metrics have been computed
ImagesProcessed(r) ==
    IF run[r].pc \in {"save", "raised"} THEN run[r].idx * config.batch_size + run[r].i + 1
    ELSE IF run[r].pc = "images" THEN run[r].idx * config.batch_size + run[r].i
    ELSE run[r].idx * config.batch_size

C4_OneToOne(r) ==
    /\ Len(run[r].ssim_scores) = ImagesProcessed(r)
    /\ Len(run[r].psnr_scores) = ImagesProcessed(r)
    /\ Len(run[r].processed) = ImagesProcessed(r)
    /\ \A k \in 1..Len(run[r].processed) :
          /\ run[r].processed[k].batch = (k - 1) \div config.batch_size
          /\ run[r].processed[k].i = (k - 1) % config.batch_size
          /\ run[r].ssim_scores[k] = run[r].processed[k].ssim
          /\ run[r].psnr_scores[k] = run[r].processed[k].psnr
    /\ run[r].stats_written =>
          /\ run[r].stats_file = [ssim |-> run[r].ssim_scores, psnr |-> run[r].psnr_scores]
          /\ Len(run[r].stats_file.ssim) = config.nbatches * config.batch_size

C4_AppendOnly(r) ==
    /\ IsPrefix(run[r].ssim_scores, run'[r].ssim_scores)
    /\ IsPrefix(run[r].psnr_scores, run'[r].psnr_scores)

\* C4: the two score lists are as long as the number of images processed, the
\* k-th entry of each is the score of the k-th processed image in (batch,
\* index) order, entries are never changed or removed, and stats.json holds
\* exactly the two full lists
C4_MetricsAppendOnly ==
    /\ [](\A r \in active : C4_OneToOne(r))
    /\ [][\A r \in active : C4_AppendOnly(r)]_vars

C4_Witness ==
    /\ run[1].stats_written
    /\ Len(run[1].stats_file.ssim) >= 4
    /\ \E j, k \in 1..Len(run[1].ssim_scores) : run[1].ssim_scores[j] # run[1].ssim_scores[k]

\* step_size = num / den equals step_lr
EqualsStepLr == sched.step_size.num = sched.step_lr * sched.step_size.den

\* C5: on a strictly decreasing positive schedule the step size is
\* non-negative, equals step_lr at the last step, and for step_lr > 0 at no
\* other step
C5_StepSize ==
    (sched.phase = "done" /\ StrictlyDecreasing(sched.sigmas)) =>
        /\ sched.step_size.num >= 0
        /\ sched.step_size.den > 0
        /\ (sched.step = Len(sched.sigmas) - 1) => EqualsStepLr
        /\ (sched.step_lr > 0 /\ EqualsStepLr) => sched.step = Len(sched.sigmas) - 1

C5_Witness ==
    /\ sched.phase = "done"
    /\ StrictlyDecreasing(sched.sigmas)
    /\ Len(sched.sigmas) >= 3
    /\ sched.step_lr > 0
    /\ sched.step = Len(sched.sigmas) - 1
    /\ EqualsStepLr

\* C6: <forward(x), y> = <x, adjoint(y)> for every x, every k-space y and
\* every sampling mask
C6_AdjointIdentity ==
    op.phase = "done" => op.lhs = op.rhs

\* two processes at the same place of sample()
SamePlace ==
    /\ run[1].pc = run[2].pc
    /\ run[1].idx = run[2].idx
    /\ run[1].step = run[2].step
    /\ run[1].inner = run[2].inner
    /\ run[1].i = run[2].i

\* the batches whose candidate has been drawn
BatchesBegun(r) ==
    IF run[r].pc \in {"start", "batches", "mvue", "init", "done"} THEN run[r].idx
    ELSE run[r].idx + 1

\* C7: two runs with the same seed, inputs and configuration draw the same
\* random values in the same order, one per batch for the candidate and one
\* per inner iteration, and end every batch with the same candidate
C7_Reproducible ==
    /\ \A r \in Runs : run[r].draws = BatchesBegun(r) + run[r].score_calls
    /\ run[1].draws = run[2].draws => run[1].rng.torch = run[2].rng.torch
    /\ SamePlace => run[1].xt = run[2].xt /\ run[1].draws = run[2].draws
    /\ \A b \in 1..Len(run[1].finals) :
          b <= Len(run[2].finals) => run[1].finals[b] = run[2].finals[b]

C7_Witness ==
    /\ run[1].pc = "done"
    /\ run[2].pc = "done"
    /\ run[1].rng.os # run[2].rng.os
    /\ Len(run[1].finals) = 2
    /\ run[1].finals[1] # run[1].finals[2]
    /\ run[1].draws >= 4

OutsideCircle(xy) ==
    (xy[1] - 192) * (xy[1] - 192) + (xy[2] - 192) * (xy[2] - 192) > 165 * 165

\* C8 as stated: with circle_mask every pixel outside the circle is zero in
\* the images edit() produces for comparison and display, the mask being
\* applied before the rescale to 8 bits; without it the masking step changes
\* nothing
C8_MaskBeforeRescale ==
    ed.phase = "done" =>
        /\ ed.circle_mask =>
              /\ \A p \in EditPixels : OutsideCircle(p) =>
                    ed.out.recon_np[p] = 0 /\ ed.out.orig_np[p] = 0
              /\ ed.out.recon_np =
                    Rescale8([p \in EditPixels |->
                                IF OutsideCircle(p) THEN 0 ELSE ed.out.recon_th[p]], ed.cast)
        /\ ~ed.circle_mask => ed.out.recon_np = Rescale8(ed.out.recon_th, ed.cast)

\* C8 as amended: with circle_mask every pixel of the reconstructed 8-bit
\* image outside the circle is zero and every pixel inside it keeps its
\* rescaled value, the mask being applied after the rescale to 8 bits; the
\* ground-truth image is rescaled and never masked; without circle_mask the
\* masking step changes nothing
C8_MaskAfterRescale ==
    ed.phase = "done" =>
        /\ ed.circle_mask =>
              \A p \in EditPixels :
                 ed.out.recon_np[p] =
                    IF OutsideCircle(p) THEN 0 ELSE Rescale8(ed.out.recon_th, ed.cast)[p]
        /\ ~ed.circle_mask => ed.out.recon_np = Rescale8(ed.out.recon_th, ed.cast)
        /\ ed.out.orig_np = Rescale8(ed.out.orig_th, ed.cast)

C8_Witness ==
    /\ ed.phase = "done"
    /\ ed.circle_mask
    /\ \E p \in EditPixels : OutsideCircle(p) /\ ed.recon_img[p] = 50 /\ ed.out.orig_np[p] > 0
    /\ \E p \in EditPixels : ~OutsideCircle(p) /\ ed.out.recon_np[p] \in 1..254

\* the steps start_iter+1, ..., last in increasing order
StepsUpTo(last) ==
    [k \in 1..(IF last > config.start_iter THEN last - config.start_iter ELSE 0) |->
        config.start_iter + k]

InLoop(pcv) == pcv \in {"outer", "inner"}

C9_Visited(r) ==
    /\ run[r].pc = "inner" =>
          /\ run[r].step > config.start_iter
          /\ run[r].step <= config.num_classes - 1
          /\ run[r].inner <= InnerCount(run[r].step)
          /\ run[r].visited = StepsUpTo(run[r].step)
    /\ LoopDone(r) => run[r].visited = StepsUpTo(config.num_classes - 1)
    /\ run[r].pc = "init" => Len(run[r].finals) = run[r].idx

C9_Order(r) ==
    LET a == run[r]
        b == run'[r]
    IN  /\ (InLoop(a.pc) /\ InLoop(b.pc)) =>
              /\ \/ b.step = a.step /\ b.inner = a.inner
                 \/ b.step = a.step /\ b.inner = a.inner + 1
                 \/ b.step = a.step + 1 /\ b.inner \in {0, a.inner}
              /\ (b.queries # a.queries \/ b.draws # a.draws \/ b.xt # a.xt) =>
                    /\ a.step > config.start_iter
                    /\ b.step = a.step
                    /\ b.queries = a.queries + 1
                    /\ b.draws = a.draws + 1
              /\ (b.step # a.step /\ a.step > config.start_iter) =>
                    a.inner = InnerCount(a.step)
        /\ b.idx # a.idx =>
              /\ b.idx = a.idx + 1
              /\ a.step + 1 >= config.num_classes
              /\ Len(a.finals) = a.idx + 1

\* C9: within a batch the (outer step, inner iteration) states are visited in
\* increasing order, the included steps are start_iter+1, ..., num_classes-1
\* once each, no step <= start_iter queries the score, draws noise or updates
\* xt, a step's inner iterations finish before the next step begins, and a
\* batch's steps finish before the next batch's candidate is drawn
C9_SequentialSteps ==
    /\ [](\A r \in active : C9_Visited(r))
    /\ [][\A r \in active : C9_Order(r)]_vars

C9_Witness ==
    /\ run[1].pc = "inner"
    /\ run[1].idx = 1
    /\ config.start_iter >= 1
    /\ run[1].visited = <<2>>
    /\ run[1].inner = 2

\* estimated_mvue of the current batch has been computed
MvueComputed(r) == run[r].pc \in {"init", "outer", "inner", "images", "save", "raised"}

\* C10: estimated_mvue is computed once per batch, after ref and maps are
\* loaded and before the first outer step, and keeps that value through every
\* inner iteration and the post-loop renormalization
C10_MvueOncePerBatch ==
    \A r \in active :
        /\ run[r].pc = "mvue" => run[r].loaded /\ run[r].mvue_count = 0
        /\ MvueComputed(r) =>
              /\ run[r].mvue_count = 1
              /\ run[r].estimated_mvue =
                    get_mvue(Dataloader(config, run[r].idx).ground_truth,
                             Dataloader(config, run[r].idx).maps)

C10_Witness ==
    /\ LoopDone(1)
    /\ run[1].idx = 1
    /\ run[1].queries >= 6
    /\ run[1].estimated_mvue # get_mvue(Dataloader(config, 0).ground_truth,
                                        Dataloader(config, 0).maps)
====
